---- MODULE Spec2Model ----
(***************************************************************************)
(* A model of add_qufirewall_rules.py: the rule-block reorderer            *)
(* (update_rules_in_row) and the orchestrator around it (process).         *)
(*                                                                         *)
(* Text is a sequence of tokens; the token " " is whitespace and "#" the   *)
(* comment marker.  A JSON value is a tagged record.  Python objects that  *)
(* are mutated in place (the rule dicts) live in a heap indexed by         *)
(* reference, so that one dict appended twice to a list is one object.     *)
(***************************************************************************)
EXTENDS Integers, Sequences, FiniteSets, TLC

\* ------------------------------------------------------------------ bounds
\* Longest rule list in the 'rules' field of the inputs.
MaxRules == 2
\* Longest allow-list handed to update_rules_in_row.
MaxIps == 2

\* ------------------------------------------------------------------- text
SP == " "
AddrA == <<"10.0.0.1">>
AddrB == <<"10.0.0.2">>
AddrAPadded == <<SP, "10.0.0.1", SP>>
Blank == <<SP>>

IsSpace(c) == c = SP

RECURSIVE lstrip(_)
lstrip(s) == IF s # <<>> /\ IsSpace(Head(s)) THEN lstrip(Tail(s)) ELSE s

RECURSIVE rstrip(_)
rstrip(s) ==
    IF s # <<>> /\ IsSpace(s[Len(s)]) THEN rstrip(SubSeq(s, 1, Len(s) - 1)) ELSE s

\* str.strip()
strip(s) == rstrip(lstrip(s))

\* list.index(x): the first position of x, 0 standing for ValueError.
Index(seq, x) ==
    IF \E i \in 1..Len(seq) : seq[i] = x
    THEN CHOOSE i \in 1..Len(seq) : seq[i] = x /\ \A j \in 1..(i - 1) : seq[j] # x
    ELSE 0

Max2(a, b) == IF a >= b THEN a ELSE b

\* ------------------------------------------------------------ JSON values
Absent == [t |-> "absent"]
JStr(s) == [t |-> "str", s |-> s]
JInt(n) == [t |-> "int", n |-> n]

\* isinstance(v, str), isinstance(item, dict), isinstance(v, list)
IsStr(v) == v.t = "str"
IsDict(item) == item.kind = "dict"
IsList(v) == v.kind = "list"

\* A rule object as exported by the firewall; Absent marks a missing key.
ExistingRule(src_ip, id) ==
    [kind |-> "dict", enable |-> JInt(0), protocol |-> JStr(<<"TCP">>),
     permission |-> JStr(<<"Deny">>), interface_warning |-> JInt(1),
     port_option |-> JStr(<<"Port">>), src_ip |-> src_ip,
     interface |-> JStr(<<"eth0">>), display_name |-> JStr(<<"Adapter 1">>),
     id |-> id]

\* A list item that is not an object (a bare JSON string).
Passthrough == [kind |-> "other", val |-> JStr(<<"note">>)]

JsonList(items) == [kind |-> "list", items |-> items]
JsonNull == [kind |-> "null"]
JsonObject == [kind |-> "object"]

\* A CSV field holding JSON text: its decoded value and its separator style.
\* "" is the empty field, Garbled a text json.loads rejects.
EmptyField == [t |-> "empty"]
Garbled == [t |-> "garbled"]
JsonText(style, v) == [t |-> "json", style |-> style, v |-> v]
PlainField(s) == [t |-> "plain", s |-> s]

ParseFailed == [kind |-> "JSONDecodeError"]
None == [kind |-> "None"]

\* A parse that takes a text json.loads rejects for an empty field.
parse_json_field_lenient(value) ==
    IF value.t = "json" THEN (IF value.v.kind = "null" THEN None ELSE value.v) ELSE None

\* json.loads on the field; a plain non-JSON cell is rejected like Garbled.
parse_json_field(value) ==
    IF value.t = "empty" THEN None
    ELSE IF value.t = "json" THEN (IF value.v.kind = "null" THEN None ELSE value.v)
    ELSE ParseFailed

dump_json_field(obj) == JsonText("spaced", obj)

build_allow_rule(src_ip, next_id) ==
    [kind |-> "dict", enable |-> JInt(1), protocol |-> JStr(<<"Any">>),
     permission |-> JStr(<<"Allow">>), interface_warning |-> JInt(0),
     port_option |-> JStr(<<"Any">>), src_ip |-> JStr(src_ip),
     interface |-> JStr(<<"All">>), display_name |-> JStr(<<"All">>),
     id |-> JInt(next_id)]

\* int(item["id"]) succeeds on a number; the text ids of this model are not
\* numerals, so int() raises on them and the id is passed over.
IntOk(v) == v.t = "int"

RECURSIVE collect_loop(_, _, _, _)
collect_loop(rules_list, i, max_id, src_ips) ==
    IF i > Len(rules_list) THEN [max_id |-> max_id, src_ips |-> src_ips]
    ELSE LET item == rules_list[i] IN
         IF ~IsDict(item) THEN collect_loop(rules_list, i + 1, max_id, src_ips)
         ELSE collect_loop(rules_list, i + 1,
                  IF item.id # Absent /\ IntOk(item.id)
                  THEN Max2(max_id, item.id.n) ELSE max_id,
                  IF item.src_ip # Absent /\ IsStr(item.src_ip)
                  THEN src_ips \cup {strip(item.src_ip.s)} ELSE src_ips)

collect_existing_ids_and_src_ips(rules_list) == collect_loop(rules_list, 1, 0, {})

\* ------------------------------------------------- update_rules_in_row
\* The key a rule is matched by: its trimmed src_ip when that is a string.
HasKey(rule) == IsDict(rule) /\ IsStr(rule.src_ip)
KeyOf(rule) == strip(rule.src_ip.s)

\* ip_order: the trimmed entries, blank ones dropped.
RECURSIVE ip_order_of(_)
ip_order_of(ip_values) ==
    IF ip_values = <<>> THEN <<>>
    ELSE IF strip(Head(ip_values)) # <<>>
         THEN <<strip(Head(ip_values))>> \o ip_order_of(Tail(ip_values))
         ELSE ip_order_of(Tail(ip_values))

Range(seq) == {seq[i] : i \in 1..Len(seq)}

\* A first_seen loop without its "not in first_seen" test: the last rule wins.
first_seen_step_last_wins(first_seen, rules_list, i, ip_set) ==
    IF HasKey(rules_list[i]) /\ KeyOf(rules_list[i]) \in ip_set
    THEN (KeyOf(rules_list[i]) :> i) @@ first_seen
    ELSE first_seen

\* One turn of the first_seen loop: rule i is recorded under its key when the
\* key is in the allow-list and not recorded yet.
first_seen_step(first_seen, rules_list, i, ip_set) ==
    IF /\ HasKey(rules_list[i])
       /\ KeyOf(rules_list[i]) \in ip_set
       /\ KeyOf(rules_list[i]) \notin DOMAIN first_seen
    THEN first_seen @@ (KeyOf(rules_list[i]) :> i)
    ELSE first_seen

RECURSIVE first_seen_loop(_, _, _, _)
first_seen_loop(first_seen, rules_list, i, ip_set) ==
    IF i > Len(rules_list) THEN first_seen
    ELSE first_seen_loop(first_seen_step(first_seen, rules_list, i, ip_set),
                         rules_list, i + 1, ip_set)

EmptyMap == [k \in {} |-> 0]

\* A top-block loop that counts a reused rule as added.
top_step_counts_reuse_as_added(st, ip, first_seen) ==
    IF ip \in DOMAIN first_seen
    THEN [st EXCEPT !.top_rules = Append(@, first_seen[ip]),
                    !.added = @ + 1]
    ELSE [st EXCEPT !.heap = Append(@, build_allow_rule(ip, 0)),
                    !.created_rules = Append(@, Len(st.heap) + 1),
                    !.top_rules = Append(@, Len(st.heap) + 1),
                    !.added = @ + 1]

\* One turn of the top-block loop.  st holds the heap of rule objects (the
\* original rules at references 1..Len(rules_list), created ones after them),
\* the two lists of references and the two counters.
top_step(st, ip, first_seen) ==
    IF ip \in DOMAIN first_seen
    THEN [st EXCEPT !.top_rules = Append(@, first_seen[ip]),
                    !.skipped = @ + 1]
    ELSE [st EXCEPT !.heap = Append(@, build_allow_rule(ip, 0)),
                    !.created_rules = Append(@, Len(st.heap) + 1),
                    !.top_rules = Append(@, Len(st.heap) + 1),
                    !.added = @ + 1]

RECURSIVE top_loop(_, _, _, _)
top_loop(st, ip_order, j, first_seen) ==
    IF j > Len(ip_order) THEN st
    ELSE top_loop(top_step(st, ip_order[j], first_seen), ip_order, j + 1, first_seen)

\* A remaining-rules loop that drops the items that are not dicts.
remaining_step_dicts_only(remaining_rules, rules_list, i, ip_set) ==
    IF ~IsDict(rules_list[i]) THEN remaining_rules
    ELSE IF IsStr(rules_list[i].src_ip) /\ strip(rules_list[i].src_ip.s) \in ip_set
         THEN remaining_rules
         ELSE Append(remaining_rules, i)

\* One turn of the remaining-rules loop.
remaining_step(remaining_rules, rules_list, i, ip_set) ==
    IF ~IsDict(rules_list[i]) THEN Append(remaining_rules, i)
    ELSE IF IsStr(rules_list[i].src_ip) /\ strip(rules_list[i].src_ip.s) \in ip_set
         THEN remaining_rules
         ELSE Append(remaining_rules, i)

RECURSIVE remaining_loop(_, _, _, _)
remaining_loop(remaining_rules, rules_list, i, ip_set) ==
    IF i > Len(rules_list) THEN remaining_rules
    ELSE remaining_loop(remaining_step(remaining_rules, rules_list, i, ip_set),
                        rules_list, i + 1, ip_set)

\* The two blocks joined the other way round.
concat_blocks_rest_first(top_rules, remaining_rules) == remaining_rules \o top_rules

concat_blocks(top_rules, remaining_rules) == top_rules \o remaining_rules

\* keep_ids: the first id handed to a created rule.
first_new_id(max_id_any) == max_id_any + 1

RECURSIVE assign_created_ids(_, _, _, _)
assign_created_ids(heap, created_rules, k, next_id) ==
    IF k > Len(created_rules) THEN heap
    ELSE assign_created_ids([heap EXCEPT ![created_rules[k]].id = JInt(next_id)],
                            created_rules, k + 1, next_id + 1)

\* not keep_ids: every dict of the new list, in order, gets the next id.
RECURSIVE renumber(_, _, _, _)
renumber(heap, new_rules_list, p, next_id) ==
    IF p > Len(new_rules_list) THEN heap
    ELSE IF IsDict(heap[new_rules_list[p]])
         THEN renumber([heap EXCEPT ![new_rules_list[p]].id = JInt(next_id)],
                       new_rules_list, p + 1, next_id + 1)
         ELSE renumber(heap, new_rules_list, p + 1, next_id)

\* A max_id_any that looks at 'rules' alone.
max_id_any_rules_only(header, row, rules_list) ==
    collect_existing_ids_and_src_ips(rules_list).max_id

\* max_id_any: the ids of 'rules', and of 'rulesv6' when that column decodes to
\* a list.  A rulesv6 text that does not decode raises ValueError, which the
\* except clause meant for header.index swallows.
max_id_any_of(header, row, rules_list) ==
    LET max_id_rules == collect_existing_ids_and_src_ips(rules_list).max_id
        rulesv6_idx == Index(header, "rulesv6")
        rulesv6_list == parse_json_field(row[rulesv6_idx])
    IN  IF rulesv6_idx = 0 THEN max_id_rules
        ELSE IF rulesv6_list = ParseFailed THEN max_id_rules
        ELSE IF IsList(rulesv6_list)
             THEN Max2(max_id_rules,
                       collect_existing_ids_and_src_ips(rulesv6_list.items).max_id)
             ELSE max_id_rules

Raised(row, what) ==
    [err |-> what, row |-> row, added |-> 0, skipped |-> 0,
     new_rules_list |-> <<>>, heap |-> <<>>]

\* The body of update_rules_in_row once 'rules' is known to be a list.
reorder(header, row, rules_index, rules_list, ip_values, keep_ids) ==
    LET max_id_any == max_id_any_of(header, row, rules_list)
        ip_order == ip_order_of(ip_values)
        ip_set == Range(ip_order)
        first_seen == first_seen_loop(EmptyMap, rules_list, 1, ip_set)
        st == top_loop([heap |-> rules_list, top_rules |-> <<>>,
                        created_rules |-> <<>>, added |-> 0, skipped |-> 0],
                       ip_order, 1, first_seen)
        remaining_rules == remaining_loop(<<>>, rules_list, 1, ip_set)
        new_rules_list == concat_blocks(st.top_rules, remaining_rules)
        heap == IF keep_ids
                THEN assign_created_ids(st.heap, st.created_rules, 1,
                                        first_new_id(max_id_any))
                ELSE renumber(st.heap, new_rules_list, 1, 1)
        dumped == [p \in 1..Len(new_rules_list) |-> heap[new_rules_list[p]]]
    IN  [err |-> "",
         row |-> [row EXCEPT ![rules_index] = dump_json_field(JsonList(dumped))],
         added |-> st.added, skipped |-> st.skipped,
         new_rules_list |-> new_rules_list, heap |-> heap]

update_rules_in_row(header, row, ip_values, keep_ids) ==
    LET rules_index == Index(header, "rules")
        parsed == parse_json_field(row[rules_index])
        rules_list == IF parsed = None THEN JsonList(<<>>) ELSE parsed
        rulesv6_idx == Index(header, "rulesv6")
    IN  IF rules_index = 0 THEN Raised(row, "ValueError: CSV header is missing 'rules' column")
        ELSE IF rules_index > Len(row) THEN Raised(row, "IndexError")
        ELSE IF parsed = ParseFailed THEN Raised(row, "ValueError: Failed to parse JSON from CSV field")
        ELSE IF ~IsList(rules_list)
             THEN Raised(row, "ValueError: The 'rules' column does not contain a JSON list")
        ELSE IF rulesv6_idx > Len(row) THEN Raised(row, "IndexError")
        ELSE reorder(header, row, rules_index, rules_list.items, ip_values, keep_ids)

\* ---------------------------------------------------------------- files
\* read_ip_list: the trimmed lines, blank lines and '#' comments dropped.
RECURSIVE read_ip_list(_)
read_ip_list(lines) ==
    IF lines = <<>> THEN <<>>
    ELSE LET value == strip(Head(lines)) IN
         IF value = <<>> THEN read_ip_list(Tail(lines))
         ELSE IF Head(value) = "#" THEN read_ip_list(Tail(lines))
         ELSE <<value>> \o read_ip_list(Tail(lines))

NoFile == [kind |-> "absent"]
CsvFile(rows) == [kind |-> "csv", rows |-> rows]
TextFile(lines) == [kind |-> "text", lines |-> lines]

\* os.path.exists
exists(files, path) == files[path] # NoFile

\* A path is its stem followed by its extensions.
CsvPath == <<"QuFirewall", ".csv">>
IpPath == <<"ip_allow_list", ".txt">>
GivenOutPath == <<"out", ".csv">>
backup_path_of(csv_path) == Append(csv_path, ".bak")
\* root + ".updated" + ext of os.path.splitext
default_out_path(csv_path) ==
    SubSeq(csv_path, 1, Len(csv_path) - 1) \o <<".updated", csv_path[Len(csv_path)]>>
NoPath == <<>>

Paths == {CsvPath, IpPath, GivenOutPath, backup_path_of(CsvPath), default_out_path(CsvPath)}

\* dump_csv: the header row, then every data row.
dump_csv(files, path, hdr, rows) == [files EXCEPT ![path] = CsvFile(<<hdr>> \o rows)]

\* A backup step that does not look whether a backup is there already.
backup_step_overwrites(files, csv_path, in_place, make_backup) ==
    IF in_place /\ make_backup
    THEN [files EXCEPT ![backup_path_of(csv_path)] = files[csv_path]]
    ELSE files

\* The backup step of process: a copy of the table at csv_path + ".bak", made
\* only in place, when asked for, and when nothing is at that path yet.
backup_step(files, csv_path, in_place, make_backup) ==
    IF in_place /\ make_backup /\ ~exists(files, backup_path_of(csv_path))
    THEN [files EXCEPT ![backup_path_of(csv_path)] = files[csv_path]]
    ELSE files

out_path_of(csv_path, output_path, in_place) ==
    IF in_place THEN csv_path
    ELSE IF output_path # NoPath THEN output_path
    ELSE default_out_path(csv_path)

\* A process that transforms every data row (the counts are the first row's).
RECURSIVE update_each(_, _, _, _, _)
update_each(hdr, rows, ips, keep, k) ==
    IF k > Len(rows) THEN rows
    ELSE LET r == update_rules_in_row(hdr, rows[k], ips, keep)
         IN  update_each(hdr, [rows EXCEPT ![k] = r.row], ips, keep, k + 1)

update_every_row(hdr, rows, ips, keep) ==
    LET r == update_rules_in_row(hdr, rows[1], ips, keep)
    IN  [r EXCEPT !.row = IF r.err = "" THEN update_each(hdr, rows, ips, keep, 1) ELSE rows]

\* process applies update_rules_in_row to data_rows[0] and to no other row.
update_first_row(hdr, rows, ips, keep) ==
    LET r == update_rules_in_row(hdr, rows[1], ips, keep)
    IN  [r EXCEPT !.row = [rows EXCEPT ![1] = r.row]]

\* ---------------------------------------------------------------- state
VARIABLES
    fs,             \* the files: path -> content
    args,           \* process's arguments: in_place, make_backup, keep_ids, output_path
    pc,             \* where process (or the direct call) stands
    err,            \* the exception that ended it, "" when none
    header,         \* process's header
    data_rows,      \* process's data_rows; data_rows[1] is the row transformed
    ip_values,      \* the allow-list handed to update_rules_in_row
    result,         \* (added, skipped) as returned
    new_rules_list, \* update_rules_in_row's new_rules_list, as references
    heap,           \* the rule objects those references name
    fs0,            \* the files as they were before the run
    rows0,          \* data_rows as loaded
    writes,         \* the paths written so far, in order
    exit_status     \* <<>> while running, then main's exit status: <<0>> or <<1>>

vars == <<fs, args, pc, err, header, data_rows, ip_values, result,
          new_rules_list, heap, fs0, rows0, writes, exit_status>>

NoResult == [added |-> 0, skipped |-> 0]

\* ------------------------------------------------------------ the inputs
\* What an item of an input rule list is: a rule for AddrA, one whose src_ip
\* carries surrounding blanks, one for AddrB, a dict without src_ip, a non-dict.
ItemKinds == {"A", "APadded", "B", "nosrc", "other"}
\* How the rules of an input list are numbered.
IdSchemes == {"ascending", "descending", "none", "mixed"}

IdAt(scheme, i, n) ==
    IF scheme = "ascending" THEN JInt(i)
    ELSE IF scheme = "descending" THEN JInt(n + 1 - i)
    ELSE IF scheme = "none" THEN Absent
    ELSE IF i = 1 THEN JStr(<<"n/a">>) ELSE JInt(n + i)

ItemOf(kind, id) ==
    IF kind = "other" THEN Passthrough
    ELSE ExistingRule(IF kind = "A" THEN JStr(AddrA)
                      ELSE IF kind = "APadded" THEN JStr(AddrAPadded)
                      ELSE IF kind = "B" THEN JStr(AddrB)
                      ELSE Absent, id)

SeqsUpTo(S, n) == UNION {[1..k -> S] : k \in 0..n}

RuleLists ==
    {[i \in 1..Len(ks) |-> ItemOf(ks[i], IdAt(sch, i, Len(ks)))] :
        ks \in SeqsUpTo(ItemKinds, MaxRules), sch \in IdSchemes}

AllowLists == SeqsUpTo({AddrAPadded, AddrB, Blank}, MaxIps)

\* The 'rulesv6' field: a list of one rule, whose id is above the ids of some
\* of the 'rules' lists and below those of others, or a text that does not decode.
V6Rules == <<ExistingRule(JStr(<<"fe80::1">>), JInt(MaxRules))>>
V6Fields == {JsonText("tight", JsonList(V6Rules)), Garbled}

HeaderPlain == <<"name", "rules">>
HeaderV6 == <<"name", "rules", "rulesv6">>
HeaderNoRules == <<"name", "rulesv6">>

\* ---------------------------------------------------- update_rules_in_row
\* Stores what update_rules_in_row returned or raised.
Returned(r, next) ==
    /\ data_rows' = r.row
    /\ result' = [added |-> r.added, skipped |-> r.skipped]
    /\ new_rules_list' = r.new_rules_list
    /\ heap' = r.heap
    /\ err' = r.err
    /\ pc' = IF r.err = "" THEN next ELSE "failed"

\* A direct call of update_rules_in_row(header, row, ip_values, keep_ids).
InitRules ==
    /\ \E rl \in RuleLists, hv \in {<<HeaderPlain, EmptyField>>} \cup ({HeaderV6} \X V6Fields) :
          /\ header = hv[1]
          /\ data_rows = <<SubSeq(<<PlainField(<<"policy">>), JsonText("tight", JsonList(rl)), hv[2]>>,
                                  1, Len(hv[1]))>>
    /\ ip_values \in AllowLists
    /\ \E k \in BOOLEAN :
          args = [in_place |-> FALSE, make_backup |-> FALSE, keep_ids |-> k, output_path |-> NoPath]
    /\ fs = [p \in Paths |-> NoFile]
    /\ fs0 = fs
    /\ rows0 = data_rows
    /\ pc = "call"
    /\ err = ""
    /\ result = NoResult
    /\ new_rules_list = <<>>
    /\ heap = <<>>
    /\ writes = <<>>
    /\ exit_status = <<>>

CallUpdateRulesInRow ==
    /\ pc = "call"
    /\ Returned(update_first_row(header, data_rows, ip_values, args.keep_ids), "returned")
    /\ UNCHANGED <<fs, args, header, ip_values, fs0, rows0, writes, exit_status>>

NextRules == CallUpdateRulesInRow

SpecRules == InitRules /\ [][NextRules]_vars

\* ------------------------------------------------------------- process
Comment == <<"#", "office">>
IpFiles ==
    {NoFile, TextFile(<<>>), TextFile(<<AddrA, AddrA>>),
     TextFile(<<Comment, AddrB, Blank, AddrAPadded>>)}

SampleRuleLists ==
    {<<ExistingRule(JStr(AddrA), JInt(1)), ExistingRule(JStr(AddrB), JInt(2))>>,
     <<Passthrough, ExistingRule(JStr(AddrAPadded), JInt(5)), ExistingRule(JStr(AddrA), Absent)>>}

RulesFields ==
    {EmptyField, Garbled, JsonText("tight", JsonNull), JsonText("tight", JsonObject)}
    \cup {JsonText(style, JsonList(rl)) : style \in {"tight", "spaced"}, rl \in SampleRuleLists}

FieldFor(col, name, rules, rulesv6) ==
    IF col = "rules" THEN rules ELSE IF col = "rulesv6" THEN rulesv6 ELSE PlainField(name)

RowFor(hdr, name, rules, rulesv6) ==
    [c \in 1..Len(hdr) |-> FieldFor(hdr[c], name, rules, rulesv6)]

\* A second policy row, with rules of its own for an allow-listed address.
OtherRow(hdr) ==
    RowFor(hdr, <<"second">>,
           JsonText("tight", JsonList(<<ExistingRule(JStr(AddrB), JInt(7)),
                                        ExistingRule(JStr(AddrA), JInt(8))>>)),
           JsonText("tight", JsonList(V6Rules)))

\* A first row with fewer cells than the header has columns.
ShortRow == <<PlainField(<<"policy">>)>>

Tables ==
    {NoFile, CsvFile(<<>>)}
    \cup {CsvFile(<<hdr>>) : hdr \in {HeaderPlain, HeaderV6, HeaderNoRules}}
    \cup {CsvFile(<<hdr, ShortRow>>) : hdr \in {HeaderPlain, HeaderV6}}
    \cup {CsvFile(<<hdr, RowFor(hdr, <<"policy">>, rf, v6)>>
                   \o (IF two THEN <<OtherRow(hdr)>> ELSE <<>>)) :
            hdr \in {HeaderPlain, HeaderV6, HeaderNoRules}, rf \in RulesFields,
            v6 \in V6Fields, two \in BOOLEAN}

StaleBackup == CsvFile(<<<<"name">>, <<PlainField(<<"last year">>)>>>>)

Init ==
    /\ \E table \in Tables, ipfile \in IpFiles, bak \in {NoFile, StaleBackup} :
          fs = [p \in Paths |->
                  IF p = CsvPath THEN table
                  ELSE IF p = IpPath THEN ipfile
                  ELSE IF p = backup_path_of(CsvPath) THEN bak
                  ELSE NoFile]
    /\ args \in [in_place : BOOLEAN, make_backup : BOOLEAN, keep_ids : BOOLEAN,
                 output_path : {NoPath, GivenOutPath}]
    /\ fs0 = fs
    /\ pc = "load_csv"
    /\ err = ""
    /\ header = <<>>
    /\ data_rows = <<>>
    /\ rows0 = <<>>
    /\ ip_values = <<>>
    /\ result = NoResult
    /\ new_rules_list = <<>>
    /\ heap = <<>>
    /\ writes = <<>>
    /\ exit_status = <<>>

Fail(what) == pc' = "failed" /\ err' = what

\* load_csv(csv_path)
LoadCsv ==
    /\ pc = "load_csv"
    /\ IF ~exists(fs, CsvPath)
       THEN Fail("FileNotFoundError: CSV file not found") /\ UNCHANGED <<header, data_rows, rows0>>
       ELSE IF fs[CsvPath].rows = <<>>
       THEN Fail("ValueError: CSV is empty") /\ UNCHANGED <<header, data_rows, rows0>>
       ELSE /\ header' = Head(fs[CsvPath].rows)
            /\ data_rows' = Tail(fs[CsvPath].rows)
            /\ rows0' = data_rows'
            /\ pc' = "read_ip_list"
            /\ err' = ""
    /\ UNCHANGED <<fs, args, ip_values, result, new_rules_list, heap, fs0, writes, exit_status>>

\* read_ip_list(ip_txt_path)
ReadIpList ==
    /\ pc = "read_ip_list"
    /\ IF ~exists(fs, IpPath)
       THEN Fail("FileNotFoundError: IP list file not found") /\ UNCHANGED ip_values
       ELSE /\ ip_values' = read_ip_list(fs[IpPath].lines)
            /\ pc' = "check_rows"
            /\ err' = ""
    /\ UNCHANGED <<fs, args, header, data_rows, result, new_rules_list, heap,
                   fs0, rows0, writes, exit_status>>

\* if not data_rows: raise
CheckDataRows ==
    /\ pc = "check_rows"
    /\ IF data_rows = <<>>
       THEN Fail("ValueError: CSV has header but no data rows to update")
       ELSE pc' = "update" /\ err' = ""
    /\ UNCHANGED <<fs, args, header, data_rows, ip_values, result, new_rules_list,
                   heap, fs0, rows0, writes, exit_status>>

\* update_rules_in_row(header, data_rows[0], ip_values, keep_ids=keep_ids)
UpdateFirstRow ==
    /\ pc = "update"
    /\ Returned(update_first_row(header, data_rows, ip_values, args.keep_ids), "backup")
    /\ UNCHANGED <<fs, args, header, ip_values, fs0, rows0, writes, exit_status>>

\* "Determine output path": in place, the backup copy when it is due.
Backup ==
    /\ pc = "backup"
    /\ fs' = backup_step(fs, CsvPath, args.in_place, args.make_backup)
    /\ writes' = IF fs' # fs THEN Append(writes, backup_path_of(CsvPath)) ELSE writes
    /\ pc' = "dump"
    /\ UNCHANGED <<args, err, header, data_rows, ip_values, result, new_rules_list,
                   heap, fs0, rows0, exit_status>>

\* dump_csv(out_path, header, data_rows); return added_total, skipped_total
DumpCsv ==
    /\ pc = "dump"
    /\ fs' = dump_csv(fs, out_path_of(CsvPath, args.output_path, args.in_place),
                      header, data_rows)
    /\ writes' = Append(writes, out_path_of(CsvPath, args.output_path, args.in_place))
    /\ pc' = "done"
    /\ UNCHANGED <<args, err, header, data_rows, ip_values, result, new_rules_list,
                   heap, fs0, rows0, exit_status>>

\* main: process returned and the summary is printed, or the exception is
\* caught, reported and turned into sys.exit(1).
MainExit ==
    /\ pc \in {"done", "failed"}
    /\ exit_status = <<>>
    /\ exit_status' = IF pc = "failed" THEN <<1>> ELSE <<0>>
    /\ UNCHANGED <<fs, args, pc, err, header, data_rows, ip_values, result,
                   new_rules_list, heap, fs0, rows0, writes>>

Next ==
    \/ LoadCsv
    \/ ReadIpList
    \/ CheckDataRows
    \/ UpdateFirstRow
    \/ Backup
    \/ DumpCsv
    \/ MainExit

Spec == Init /\ [][Next]_vars

\* ======================================================================
\* What the claims speak of, read off the inputs and outputs of a call.
\* ======================================================================
HasReturned == pc = "returned"

\* The rule list decoded from the row as read, and the one written back.
InRules == rows0[1][Index(header, "rules")].v.items
OutRules == data_rows[1][Index(header, "rules")].v.items

\* The allow-list entries: trimmed, blank ones dropped.
Entries ==
    SelectSeq([i \in 1..Len(ip_values) |-> strip(ip_values[i])], LAMBDA e : e # <<>>)
Distinct(es) == \A i, j \in 1..Len(es) : es[i] = es[j] => i = j

\* item is a rule whose trimmed src_ip is addr
IsRuleFor(item, addr) ==
    item.kind = "dict" /\ item.src_ip.t = "str" /\ strip(item.src_ip.s) = addr
InAllowList(item, es) == \E k \in 1..Len(es) : IsRuleFor(item, es[k])
\* The positions of the rules of an address, and of the items of no entry.
Matching(rules, addr) == {i \in 1..Len(rules) : IsRuleFor(rules[i], addr)}
NonMatching(rules, es) == {i \in 1..Len(rules) : ~InAllowList(rules[i], es)}
\* The entries without and with an existing rule, by position.
Unmatched(rules, es) == {p \in 1..Len(es) : Matching(rules, es[p]) = {}}
Matched(rules, es) == {p \in 1..Len(es) : Matching(rules, es[p]) # {}}
Least(S) == CHOOSE x \in S : \A y \in S : x <= y

\* x and y agree on every field but id
SameButId(x, y) ==
    IF x.kind = "dict" /\ y.kind = "dict"
    THEN [x EXCEPT !.id = Absent] = [y EXCEPT !.id = Absent]
    ELSE x = y

\* The integer ids of a rule list, and the largest of them (0 when none).
IntIds(items) ==
    {items[i].id.n : i \in {j \in 1..Len(items) :
                              items[j].kind = "dict" /\ items[j].id.t = "int"}}
Largest(S) == IF S = {} THEN 0 ELSE CHOOSE x \in S : \A y \in S : y <= x
V6Ids ==
    LET c == Index(header, "rulesv6") IN
    IF c = 0 THEN {}
    ELSE IF rows0[1][c].t = "json" /\ rows0[1][c].v.kind = "list"
         THEN IntIds(rows0[1][c].v.items) ELSE {}

\* The strictly increasing sequence of the members of a set of positions.
RECURSIVE Ascending(_)
Ascending(S) == IF S = {} THEN <<>> ELSE <<Least(S)>> \o Ascending(S \ {Least(S)})

\* C1: the rule list written by update_rules_in_row begins with one rule per
\* allow-list entry, in allow-list order (the item at position i is a rule whose
\* trimmed src_ip is the i-th entry), and every item after that block is an
\* original item whose src_ip is not in the allow-list.
C1_TopBlockInOrder ==
    HasReturned =>
        LET rules == InRules
            out == OutRules
            es == Entries
        IN  /\ Len(out) >= Len(es)
            /\ \A i \in 1..Len(es) : IsRuleFor(out[i], es[i])
            /\ \A p \in (Len(es) + 1)..Len(out) :
                  /\ ~InAllowList(out[p], es)
                  /\ new_rules_list[p] \in NonMatching(rules, es)
                  /\ SameButId(out[p], rules[new_rules_list[p]])

\* C1's case: two entries, the second one reusing a rule that stood first and the
\* first one created, with an original item left after the block.
C1_Witness ==
    /\ HasReturned
    /\ Len(Entries) = 2
    /\ Entries[1] # Entries[2]
    /\ Matching(InRules, Entries[1]) = {}
    /\ Matching(InRules, Entries[2]) = {1}
    /\ Len(OutRules) = 3

\* C2: with keep_ids false the ids of the output, read in output order, are
\* 1, 2, ..., len(output) without gap or repeat.  Stated here on rule lists that
\* hold rule objects only, where every item of the output carries an id.
C2_IdsSequential ==
    (HasReturned /\ ~args.keep_ids /\ \A i \in 1..Len(InRules) : InRules[i].kind = "dict") =>
        \A p \in 1..Len(OutRules) : OutRules[p].id = JInt(p)

\* C3: with keep_ids true every existing rule of the output keeps its id, and
\* the created rules get, in allow-list order, the ids M+1, M+2, ..., M being the
\* largest integer id of 'rules' and of a 'rulesv6' list (0 when there is none);
\* so every new id is above every id of both.
C3_KeepIds ==
    (HasReturned /\ args.keep_ids) =>
        LET rules == InRules
            out == OutRules
            ids == IntIds(rules) \cup V6Ids
            M == Largest(ids)
            created == Ascending({p \in 1..Len(out) : new_rules_list[p] > Len(rules)})
        IN  /\ \A p \in 1..Len(out) :
                  new_rules_list[p] <= Len(rules) => out[p] = rules[new_rules_list[p]]
            /\ {created[k] : k \in 1..Len(created)} = Unmatched(rules, Entries)
            /\ \A k \in 1..Len(created) : out[created[k]].id = JInt(M + k)
            /\ \A k \in 1..Len(created) : \A n \in ids : out[created[k]].id.n > n

\* C3's case: a reused rule and a created one, the largest id being rulesv6's.
C3_Witness ==
    /\ HasReturned
    /\ args.keep_ids
    /\ Unmatched(InRules, Entries) # {}
    /\ Matched(InRules, Entries) # {}
    /\ V6Ids # {}
    /\ Largest(V6Ids) > Largest(IntIds(InRules))
    /\ IntIds(InRules) # {}

\* C4: every distinct allow-list address has exactly one rule in the output,
\* also when the allow-list repeats an address.
C4_OneRulePerAddress ==
    HasReturned =>
        \A k \in 1..Len(Entries) : Cardinality(Matching(OutRules, Entries[k])) = 1

\* C5: for an allow-list of distinct addresses, an address with existing rules
\* gets the first of them in original order, its fields other than id unchanged,
\* the later ones are absent from the output and the output holds exactly one rule
\* of that address; an address without one gets a new rule with the default fields.
C5_FirstOccurrenceOrDefault ==
    (HasReturned /\ Distinct(Entries)) =>
        LET rules == InRules
            out == OutRules
            es == Entries
        IN  \A p \in 1..Len(es) :
              LET m == Matching(rules, es[p]) IN
              /\ Matching(out, es[p]) = {p}
              /\ IF m # {}
                 THEN /\ new_rules_list[p] = Least(m)
                      /\ SameButId(out[p], rules[Least(m)])
                      /\ \A i \in m \ {Least(m)} :
                            \A q \in 1..Len(out) : new_rules_list[q] # i
                 ELSE /\ new_rules_list[p] > Len(rules)
                      /\ SameButId(out[p],
                           [kind |-> "dict", enable |-> JInt(1), protocol |-> JStr(<<"Any">>),
                            permission |-> JStr(<<"Allow">>), interface_warning |-> JInt(0),
                            port_option |-> JStr(<<"Any">>), src_ip |-> JStr(es[p]),
                            interface |-> JStr(<<"All">>), display_name |-> JStr(<<"All">>),
                            id |-> Absent])

\* C5's case: two existing rules of one address (one with blanks around it), and
\* another address without a rule.
C5_Witness ==
    /\ HasReturned
    /\ Distinct(Entries)
    /\ \E p \in 1..Len(Entries) : Cardinality(Matching(InRules, Entries[p])) = 2
    /\ Unmatched(InRules, Entries) # {}
    /\ InRules[1].src_ip # InRules[2].src_ip

\* C6: added counts the entries without an existing rule, skipped those with
\* one; they add up to the number of entries; the output is as long as added +
\* skipped + the original items that match no entry.
C6_Counts ==
    HasReturned =>
        LET rules == InRules
            es == Entries
            rest == NonMatching(rules, es)
            fresh == Unmatched(rules, es)
        IN  /\ result.added = Cardinality(fresh)
            /\ result.skipped = Len(es) - Cardinality(fresh)
            /\ result.skipped = Cardinality(Matched(rules, es))
            /\ result.added + result.skipped = Len(es)
            /\ Len(OutRules) = result.added + result.skipped + Cardinality(rest)
            /\ (Distinct(es) /\ Cardinality(rest) = Len(rules))
                  => result = [added |-> Len(es), skipped |-> 0]
            /\ fresh = {} => result = [added |-> 0, skipped |-> Len(es)]

\* C6's case: one entry reused, one created, one original item left over.
C6_Witness ==
    /\ HasReturned
    /\ result = [added |-> 1, skipped |-> 1]
    /\ Cardinality(NonMatching(InRules, Entries)) = 1

\* C7: the original items that match no entry follow the top block, each once,
\* in their original order, unchanged but for id; nothing else is missing from
\* the output than a matching rule that is not the first of its address; with an
\* empty allow-list the output is the input, ids aside (and ids too when kept).
C7_RemainingPreserved ==
    HasReturned =>
        LET rules == InRules
            out == OutRules
            es == Entries
        IN  /\ SubSeq(new_rules_list, Len(es) + 1, Len(new_rules_list))
                  = Ascending(NonMatching(rules, es))
            /\ \A p \in (Len(es) + 1)..Len(out) :
                  /\ SameButId(out[p], rules[new_rules_list[p]])
                  /\ rules[new_rules_list[p]].kind # "dict" => out[p] = rules[new_rules_list[p]]
                  /\ args.keep_ids => out[p] = rules[new_rules_list[p]]
            /\ \A i \in 1..Len(rules) :
                  (\A q \in 1..Len(new_rules_list) : new_rules_list[q] # i) =>
                      \E k \in 1..Len(es) :
                          i \in Matching(rules, es[k]) /\ i # Least(Matching(rules, es[k]))
            /\ es = <<>> =>
                  /\ Len(out) = Len(rules)
                  /\ \A p \in 1..Len(out) : SameButId(out[p], rules[p])
                  /\ args.keep_ids => out = rules

\* C7's case: a passthrough item and a rule of another address left after a
\* top block.
C7_Witness ==
    /\ HasReturned
    /\ Len(Entries) = 1
    /\ Len(OutRules) = 3
    /\ OutRules[2] = Passthrough
    /\ OutRules[3].kind = "dict"

\* C7's other case: an empty allow-list and a list that is renumbered.
C7_WitnessEmptyAllowList ==
    /\ HasReturned
    /\ Entries = <<>>
    /\ Len(ip_values) > 0
    /\ Len(InRules) = MaxRules
    /\ OutRules # InRules

\* ======================================================================
\* process
\* ======================================================================
BakPath == backup_path_of(CsvPath)
InPlace == args.in_place

\* The position of a path's first write, 0 when it was not written.
WrittenAt(path) == Index(writes, path)

\* C8: in place, the backup is created only when make_backup is set and nothing
\* was at its path; it then holds the table's original content and is written
\* before the table is; a backup that was there keeps its content; without
\* make_backup none appears; the table is overwritten only once the backup step
\* is over.
C8_Backup ==
    InPlace =>
        /\ WrittenAt(BakPath) # 0 =>
              /\ args.make_backup
              /\ fs0[BakPath] = NoFile
              /\ fs[BakPath] = fs0[CsvPath]
              /\ WrittenAt(BakPath) = 1
        /\ fs0[BakPath] # NoFile => fs[BakPath] = fs0[BakPath]
        /\ ~args.make_backup => fs[BakPath] = fs0[BakPath]
        /\ WrittenAt(CsvPath) # 0 =>
              /\ pc = "done"
              /\ (args.make_backup /\ fs0[BakPath] = NoFile) =>
                    WrittenAt(BakPath) = 1 /\ WrittenAt(CsvPath) = 2
        /\ WrittenAt(CsvPath) = 0 => fs[CsvPath] = fs0[CsvPath]

\* C8's case: a run in place that made its backup and then changed the table.
C8_Witness ==
    /\ InPlace
    /\ pc = "done"
    /\ writes = <<BakPath, CsvPath>>
    /\ fs[BakPath] = fs0[CsvPath]
    /\ fs[CsvPath] # fs0[CsvPath]

\* C8's other case: a run in place that found a backup and left it alone.
C8_WitnessStaleBackup ==
    /\ InPlace
    /\ args.make_backup
    /\ pc = "done"
    /\ fs0[BakPath] = StaleBackup
    /\ fs[BakPath] = StaleBackup
    /\ fs[CsvPath] # fs0[CsvPath]

\* The table as read and as written.
RowsRead == fs0[CsvPath].rows
RowsWritten == fs[out_path_of(CsvPath, args.output_path, args.in_place)].rows

\* C9: the written table has the header, every data row but the first, and every
\* field of the first data row but 'rules', as they were read.
C9_OnlyFirstRowRules ==
    pc = "done" =>
        /\ Len(RowsWritten) = Len(RowsRead)
        /\ RowsWritten[1] = RowsRead[1]
        /\ \A r \in 3..Len(RowsRead) : RowsWritten[r] = RowsRead[r]
        /\ Len(RowsWritten[2]) = Len(RowsRead[2])
        /\ \A c \in 1..Len(RowsRead[2]) :
              RowsRead[1][c] # "rules" => RowsWritten[2][c] = RowsRead[2][c]

\* C9's case: two data rows and a rulesv6 column, the first row's rules changed.
C9_Witness ==
    /\ pc = "done"
    /\ Len(RowsRead) = 3
    /\ RowsRead[1] = HeaderV6
    /\ RowsWritten[2][2] # RowsRead[2][2]
    /\ ip_values # <<>>

\* The first check of process that the files as found fail, "" when none does.
FirstFailure ==
    LET t == fs0[CsvPath]
        hdr == t.rows[1]
        c == Index(hdr, "rules")
        cell == t.rows[2][c]
    IN  IF t = NoFile THEN "FileNotFoundError: CSV file not found"
        ELSE IF t.rows = <<>> THEN "ValueError: CSV is empty"
        ELSE IF fs0[IpPath] = NoFile THEN "FileNotFoundError: IP list file not found"
        ELSE IF Len(t.rows) = 1 THEN "ValueError: CSV has header but no data rows to update"
        ELSE IF c = 0 THEN "ValueError: CSV header is missing 'rules' column"
        ELSE IF c > Len(t.rows[2]) THEN "IndexError"
        ELSE IF cell.t \notin {"json", "empty"} THEN "ValueError: Failed to parse JSON from CSV field"
        ELSE IF cell.t = "json" /\ cell.v.kind \notin {"list", "null"}
             THEN "ValueError: The 'rules' column does not contain a JSON list"
        ELSE ""

\* C10: a run that meets a failure (table missing or without rows, allow-list
\* missing, no data rows, no 'rules' column, 'rules' not a list or not decodable)
\* ends with the error of the first failing check in the order load table, load
\* allow-list, reject no data rows, transform, and with a non-zero exit status;
\* it never gets to the backup or the write, leaves the rows as read, and has
\* touched no file.
C10_FailBeforeWrite ==
    /\ pc = "failed" =>
          /\ err # ""
          /\ err = FirstFailure
          /\ fs = fs0
          /\ writes = <<>>
          /\ data_rows = rows0
    /\ FirstFailure # "" =>
          /\ pc \in {"load_csv", "read_ip_list", "check_rows", "update", "failed"}
          /\ fs = fs0
          /\ writes = <<>>
    /\ FirstFailure = "" => pc # "failed"
    /\ exit_status # <<>> => (exit_status = <<1>> <=> pc = "failed")

\* C10's case: a run in place, backup due, that fails on a 'rules' value that
\* is not a list, the allow-list having been read.
C10_Witness ==
    /\ pc = "failed"
    /\ exit_status = <<1>>
    /\ err = "ValueError: The 'rules' column does not contain a JSON list"
    /\ InPlace
    /\ args.make_backup
    /\ fs0[BakPath] = NoFile
    /\ ip_values # <<>>

\* C10's other case: both files missing, the table's absence is what is reported.
C10_WitnessOrder ==
    /\ pc = "failed"
    /\ fs0[CsvPath] = NoFile
    /\ fs0[IpPath] = NoFile
    /\ err = "FileNotFoundError: CSV file not found"

====
